---- MODULE Spec2Model ----
(***************************************************************************)
(* Trigger-update pipeline of OSS goEcommerce.                             *)
(*                                                                         *)
(* A text is a sequence of symbols.  A symbol is one character (" ", "\n", *)
(* ";", a control character, a zero-width character) or one whole word     *)
(* (a keyword such as "GO" or "BEGIN", or a statement body such as "S1").  *)
(* Two word symbols that touch form one longer word, as their characters   *)
(* would.                                                                  *)
(***************************************************************************)
EXTENDS Integers, Sequences, FiniteSets, TLC

(***************************************************************************)
(* Bounds of the model.                                                    *)
(***************************************************************************)
MaxBatches == 3
MaxRuns == 2
MaxWorkers == 3
MaxMarks == 2
MaxLines == 4
MaxText == 17
MaxItems == 2
MaxChars == 3

(***************************************************************************)
(* Symbols.                                                                *)
(***************************************************************************)
SP == " "
NL == "\n"
SEMI == ";"
NUL == "NUL"
ZWSP == "ZWSP"
BOM == "BOM"
TAB == "\t"
\* U+009B, one of the C1 control characters U+0080..U+009F
CSI == "CSI"
\* U+2060 WORD JOINER, a zero-width format character outside U+200B..U+200D
WJ == "WJ"

\* characters that str.strip() and the regex class \s remove or match
WhiteSyms == {SP, NL, TAB}
\* [\x00-\x08\x0B-\x0C\x0E-\x1F\x7F]
ControlSyms == {NUL}
\* [U+200B-U+200D, U+FEFF]
InvisibleSyms == {ZWSP, BOM}
NonWordSyms ==
  WhiteSyms \cup ControlSyms \cup InvisibleSyms \cup {SEMI, CSI, WJ}

IsWordSym(s) == s \notin NonWordSyms

\* str.upper() / re.IGNORECASE on one symbol
Upper(s) ==
  CASE s = "go" -> "GO"
    [] s = "Go" -> "GO"
    [] s = "begin" -> "BEGIN"
    [] s = "end" -> "END"
    [] s = "create" -> "CREATE"
    [] s = "trigger" -> "TRIGGER"
    [] s = "as" -> "AS"
    [] s = "set" -> "SET"
    [] OTHER -> s

\* the value None, for an optional text
None == <<"<None>">>

(***************************************************************************)
(* String helpers of the Python runtime.                                   *)
(***************************************************************************)
RECURSIVE lstrip(_)
lstrip(t) ==
  IF t = <<>> THEN <<>>
  ELSE IF Head(t) \in WhiteSyms THEN lstrip(Tail(t)) ELSE t

RECURSIVE rstrip(_)
rstrip(t) ==
  IF t = <<>> THEN <<>>
  ELSE IF t[Len(t)] \in WhiteSyms THEN rstrip(SubSeq(t, 1, Len(t) - 1)) ELSE t

strip(t) == rstrip(lstrip(t))

\* re.sub(r'[...]', '', t): drop every symbol of the class
RECURSIVE RemoveSyms(_, _)
RemoveSyms(t, cls) ==
  IF t = <<>> THEN <<>>
  ELSE IF Head(t) \in cls THEN RemoveSyms(Tail(t), cls)
       ELSE <<Head(t)>> \o RemoveSyms(Tail(t), cls)

\* t.split('\n'): always at least one line
RECURSIVE SplitLines(_)
SplitLines(t) ==
  IF \A k \in 1..Len(t) : t[k] # NL THEN <<t>>
  ELSE LET k == CHOOSE k \in 1..Len(t) :
                  t[k] = NL /\ \A m \in 1..(k - 1) : t[m] # NL
       IN <<SubSeq(t, 1, k - 1)>> \o SplitLines(SubSeq(t, k + 1, Len(t)))

\* '\n'.join(ls)
RECURSIVE JoinLines(_)
JoinLines(ls) ==
  IF ls = <<>> THEN <<>>
  ELSE IF Len(ls) = 1 THEN ls[1]
       ELSE ls[1] \o <<NL>> \o JoinLines(Tail(ls))

(***************************************************************************)
(* DecryptService.format_sql_for_execution                                 *)
(***************************************************************************)
format_sql_for_execution(sql_text) ==
  IF sql_text = <<>> \/ strip(sql_text) = <<>> THEN <<>>
  ELSE LET sql1 == strip(sql_text)
           sql2 == IF Head(sql1) = BOM THEN strip(Tail(sql1)) ELSE sql1
           sql3 == RemoveSyms(sql2, ControlSyms)
           sql4 == RemoveSyms(sql3, InvisibleSyms)
       IN strip(sql4)

(***************************************************************************)
(* DatabaseService._split_sql_batches                                      *)
(***************************************************************************)
\* the pattern without re.IGNORECASE
IsBatchSeparatorCaseSensitive(line) ==
  LET a == lstrip(line)
  IN /\ a # <<>>
     /\ Head(a) = "GO"
     /\ LET b == lstrip(Tail(a))
            c == IF b # <<>> /\ Head(b) = SEMI THEN Tail(b) ELSE b
        IN lstrip(c) = <<>>

\* re.match(r'^\s*GO\s*;?\s*$', line, re.IGNORECASE)
IsBatchSeparator(line) ==
  LET a == lstrip(line)
  IN /\ a # <<>>
     /\ Upper(Head(a)) = "GO"
     /\ LET b == lstrip(Tail(a))
            c == IF b # <<>> /\ Head(b) = SEMI THEN Tail(b) ELSE b
        IN lstrip(c) = <<>>

\* the loop over the lines: st = [batches, current_batch]
RECURSIVE SplitLoop(_, _, _)
SplitLoop(ls, batches, current_batch) ==
  IF ls = <<>> THEN [batches |-> batches, current_batch |-> current_batch]
  ELSE IF IsBatchSeparator(Head(ls))
       THEN IF current_batch # <<>>
            THEN LET batch_text == strip(JoinLines(current_batch))
                 IN SplitLoop(Tail(ls),
                              IF batch_text # <<>> THEN Append(batches, batch_text)
                                                   ELSE batches,
                              <<>>)
            ELSE SplitLoop(Tail(ls), batches, current_batch)
       ELSE SplitLoop(Tail(ls), batches, Append(current_batch, Head(ls)))

SplitFallback(sql_query, batches) ==
  IF batches = <<>>
  THEN IF strip(sql_query) # <<>> THEN <<strip(sql_query)>> ELSE <<>>
  ELSE batches

split_sql_batches(sql_query) ==
  LET st == SplitLoop(SplitLines(sql_query), <<>>, <<>>)
      last == IF st.current_batch # <<>>
              THEN LET batch_text == strip(JoinLines(st.current_batch))
                   IN IF batch_text # <<>> THEN Append(st.batches, batch_text)
                                           ELSE st.batches
              ELSE st.batches
  IN SplitFallback(sql_query, last)

(***************************************************************************)
(* Regular-expression helpers used by DecryptService.fix_trigger_structure *)
(***************************************************************************)
\* \b before position i / after position i of t
BoundaryBefore(t, i) == i = 1 \/ ~IsWordSym(t[i - 1])
BoundaryAfter(t, i) == i = Len(t) \/ ~IsWordSym(t[i + 1])

\* first position >= i that is not whitespace (Len(t) + 1 when there is none)
RECURSIVE SkipWhite(_, _)
SkipWhite(t, i) ==
  IF i > Len(t) THEN Len(t) + 1
  ELSE IF t[i] \in WhiteSyms THEN SkipWhite(t, i + 1) ELSE i

\* \s+KEYWORD at position i: the position of the keyword, 0 when no match
WhiteThenWord(t, i, word) ==
  LET r == SkipWhite(t, i)
  IN IF r > i /\ r <= Len(t) /\ Upper(t[r]) = word THEN r ELSE 0

\* re.search(r'CREATE\s+TRIGGER', t, re.IGNORECASE)
HasCreateTrigger(t) ==
  \E i \in 1..Len(t) :
    Upper(t[i]) = "CREATE" /\ WhiteThenWord(t, i + 1, "TRIGGER") # 0

\* re.search(r'\bAS\s+BEGIN\b', t, re.IGNORECASE)
HasAsBegin(t) ==
  \E i \in 1..Len(t) :
    /\ Upper(t[i]) = "AS"
    /\ BoundaryBefore(t, i)
    /\ LET r == WhiteThenWord(t, i + 1, "BEGIN")
       IN r # 0 /\ BoundaryAfter(t, r)

\* re.search(r'\bBEGIN\b', line, re.IGNORECASE), same for END
HasWord(line, word) ==
  \E i \in 1..Len(line) :
    Upper(line[i]) = word /\ BoundaryBefore(line, i) /\ BoundaryAfter(line, i)

\* re.search(r'^\s*GO\s*$', line, re.IGNORECASE)
IsGoLine(line) ==
  LET a == lstrip(line)
  IN a # <<>> /\ Upper(Head(a)) = "GO" /\ lstrip(Tail(a)) = <<>>

\* s.split(';')
RECURSIVE SplitSemi(_)
SplitSemi(t) ==
  IF \A k \in 1..Len(t) : t[k] # SEMI THEN <<t>>
  ELSE LET k == CHOOSE k \in 1..Len(t) :
                  t[k] = SEMI /\ \A m \in 1..(k - 1) : t[m] # SEMI
       IN <<SubSeq(t, 1, k - 1)>> \o SplitSemi(SubSeq(t, k + 1, Len(t)))

(***************************************************************************)
(* pattern1: (\bAS\b)\s+(SET\s+[^;]+?;.*?)                                 *)
(*           (?=\s+DECLARE\b|\s+BEGIN\s+DECLARE|\s+IF\b)                   *)
(***************************************************************************)
\* the lookahead at position q
Lookahead1(t, q) ==
  \/ LET r == WhiteThenWord(t, q, "DECLARE") IN r # 0 /\ BoundaryAfter(t, r)
  \/ LET r == WhiteThenWord(t, q, "BEGIN")
     IN r # 0 /\ WhiteThenWord(t, r + 1, "DECLARE") # 0
  \/ LET r == WhiteThenWord(t, q, "IF") IN r # 0 /\ BoundaryAfter(t, r)

\* a match that starts at i: [set |-> start of group 2, end |-> first position
\* after the match], or end = 0 when pattern1 does not match at i
Match1(t, i) ==
  LET j == WhiteThenWord(t, i + 1, "SET")
      semis == {k \in 1..Len(t) : k > j /\ t[k] = SEMI}
      NoMatch == [set |-> 0, end |-> 0]
  IN IF ~(Upper(t[i]) = "AS" /\ BoundaryBefore(t, i)) \/ j = 0 \/ semis = {}
     THEN NoMatch
     ELSE LET semi == CHOOSE k \in semis : \A m \in semis : k <= m
              ends == {q \in (semi + 1)..Len(t) : Lookahead1(t, q)}
          IN IF ~(j + 1 <= Len(t) /\ t[j + 1] \in WhiteSyms /\ semi >= j + 3)
                \/ ends = {}
             THEN NoMatch
             ELSE [set |-> j, end |-> CHOOSE q \in ends : \A m \in ends : q <= m]

\* the lines "    SET ...;" built from the statements of group 2
RECURSIVE SetLines(_)
SetLines(stmts) ==
  IF stmts = <<>> THEN <<>>
  ELSE LET stmt == strip(Head(stmts))
       IN IF stmt # <<>> /\ Upper(Head(stmt)) = "SET"
          THEN <<(<<SP, SP, SP, SP>> \o stmt \o <<SEMI>>)>> \o SetLines(Tail(stmts))
          ELSE SetLines(Tail(stmts))

fix_inline_set(t, i, m) ==
  LET set_statements == strip(SubSeq(t, m.set, m.end - 1))
      set_lines == SetLines(SplitSemi(set_statements))
  IN IF set_lines # <<>>
     THEN <<t[i], NL, "BEGIN", NL>> \o JoinLines(set_lines) \o <<NL>>
     ELSE SubSeq(t, i, m.end - 1)

\* re.sub(pattern1, fix_inline_set, t), scanning from position pos
RECURSIVE Sub1(_, _)
Sub1(t, pos) ==
  IF pos > Len(t) THEN <<>>
  ELSE LET m == Match1(t, pos)
       IN IF m.end = 0 THEN <<t[pos]>> \o Sub1(t, pos + 1)
          ELSE fix_inline_set(t, pos, m) \o Sub1(t, m.end)

(***************************************************************************)
(* pattern2: (\bAS\b)\s*;?\s*\n\s*(SET\s+NOCOUNT|SET\s+ANSI)               *)
(***************************************************************************)
StartsNocountOrAnsi(s) == Upper(s) \in {"NOCOUNT", "ANSI", "ANSI_NULLS"}

\* \s*;?\s*\n\s* matches exactly the gap g
IsAsGap(g) ==
  /\ \A k \in 1..Len(g) : g[k] \in WhiteSyms \cup {SEMI}
  /\ Cardinality({k \in 1..Len(g) : g[k] = SEMI}) <= 1
  /\ \E k \in 1..Len(g) : g[k] = NL /\ \A m \in k..Len(g) : g[m] # SEMI

\* [set |-> position of SET, end |-> first position after the match]
Match2(t, i) ==
  LET sets == {j \in (i + 1)..Len(t) :
                 Upper(t[j]) = "SET" /\ IsAsGap(SubSeq(t, i + 1, j - 1))}
      NoMatch == [set |-> 0, end |-> 0]
  IN IF ~(Upper(t[i]) = "AS" /\ BoundaryBefore(t, i)) \/ sets = {}
     THEN NoMatch
     ELSE LET j == CHOOSE j \in sets : TRUE
              r == SkipWhite(t, j + 1)
          IN IF r > j + 1 /\ r <= Len(t) /\ StartsNocountOrAnsi(t[r])
             THEN [set |-> j, end |-> r + 1]
             ELSE NoMatch

fix_multiline_set(t, i, m) ==
  <<t[i], NL, "BEGIN", NL, SP, SP, SP, SP>> \o SubSeq(t, m.set, m.end - 1)

RECURSIVE Sub2(_, _)
Sub2(t, pos) ==
  IF pos > Len(t) THEN <<>>
  ELSE LET m == Match2(t, pos)
       IN IF m.end = 0 THEN <<t[pos]>> \o Sub2(t, pos + 1)
          ELSE fix_multiline_set(t, pos, m) \o Sub2(t, m.end)

(***************************************************************************)
(* The missing-END scan over the lines.                                    *)
(***************************************************************************)
\* for j in range(i - 1, trigger_start_idx, -1): the first line that is not
\* blank and not a GO line gets the END (0: there is none)
RECURSIVE EndTarget(_, _, _)
EndTarget(lines, j, trigger_start_idx) ==
  IF j <= trigger_start_idx THEN 0
  ELSE IF strip(lines[j]) # <<>> /\ ~IsGoLine(lines[j]) THEN j
       ELSE EndTarget(lines, j - 1, trigger_start_idx)

InsertEnd(line) ==
  LET s == strip(line)
      r == rstrip(line)
  IN IF s[Len(s)] = SEMI
     THEN SubSeq(r, 1, Len(r) - 1) \o <<NL, "END", SEMI>>
     ELSE r \o <<NL, "END">>

\* one iteration of the loop; st = [lines, in_trigger, trigger_start_idx,
\* begin_count, end_count]; indices are 1-based, trigger_start_idx 0 = none
ScanStep(st, i) ==
  LET line == st.lines[i]
  IN IF HasCreateTrigger(line)
     THEN [st EXCEPT !.in_trigger = TRUE, !.trigger_start_idx = i,
                     !.begin_count = 0, !.end_count = 0]
     ELSE IF ~st.in_trigger THEN st
     ELSE LET bc == st.begin_count + (IF HasWord(line, "BEGIN") THEN 1 ELSE 0)
              ec == st.end_count + (IF HasWord(line, "END") THEN 1 ELSE 0)
          IN IF IsGoLine(line)
             THEN LET j == IF bc > ec
                           THEN EndTarget(st.lines, i - 1, st.trigger_start_idx)
                           ELSE 0
                  IN [lines |-> IF j = 0 THEN st.lines
                                ELSE [st.lines EXCEPT ![j] = InsertEnd(st.lines[j])],
                      in_trigger |-> FALSE, trigger_start_idx |-> 0,
                      begin_count |-> 0, end_count |-> 0]
             ELSE [st EXCEPT !.begin_count = bc, !.end_count = ec]

RECURSIVE ScanLoop(_, _)
ScanLoop(st, i) ==
  IF i > Len(st.lines) THEN st ELSE ScanLoop(ScanStep(st, i), i + 1)

FixMissingEnd(corrected) ==
  JoinLines(ScanLoop([lines |-> SplitLines(corrected), in_trigger |-> FALSE,
                      trigger_start_idx |-> 0, begin_count |-> 0,
                      end_count |-> 0], 1).lines)

(***************************************************************************)
(* DecryptService.fix_trigger_structure                                    *)
(***************************************************************************)
\* the repair without the test for CREATE TRIGGER
fix_any_script(sql_text) ==
  IF sql_text = <<>> \/ strip(sql_text) = <<>> THEN sql_text
  ELSE LET c1 == IF ~HasAsBegin(sql_text) THEN Sub1(sql_text, 1) ELSE sql_text
           c2 == IF ~HasAsBegin(c1) THEN Sub2(c1, 1) ELSE c1
       IN FixMissingEnd(c2)

fix_trigger_structure(sql_text) ==
  IF sql_text = <<>> \/ strip(sql_text) = <<>> THEN sql_text
  ELSE IF ~HasCreateTrigger(sql_text) THEN sql_text
  ELSE LET c1 == IF ~HasAsBegin(sql_text) THEN Sub1(sql_text, 1) ELSE sql_text
           c2 == IF ~HasAsBegin(c1) THEN Sub2(c1, 1) ELSE c1
       IN FixMissingEnd(c2)

(***************************************************************************)
(* Inputs of the model: the plaintexts the decrypt step can produce.       *)
(***************************************************************************)
StmtSyms == <<"S1", "S2", "S3", "S4", "S5">>

\* n statements, separated by GO lines
RECURSIVE Script(_)
Script(n) ==
  IF n = 1 THEN <<StmtSyms[1]>>
  ELSE Script(n - 1) \o <<NL, "GO", NL, StmtSyms[n]>>

\* a trigger whose body lacks BEGIN after AS and END before GO
TriggerScript ==
  <<"CREATE", SP, "TRIGGER", SP, "S1", SP, "AS", SP, "SET", SP, "NOCOUNT",
    SEMI, SP, "IF", SP, "BEGIN", SP, "S2", NL, "GO">>

DecryptedTexts ==
  {Script(n) : n \in 1..MaxBatches}
    \cup {TriggerScript, <<BOM, "S1", NUL, NL, "GO", NL>>, <<ZWSP>>, <<SP, NL>>}

\* what the endpoint can answer with status 200
Bodies ==
  {"list", "empty_list", "object", "scalar", "invalid_json", "empty_text"}
\* what the endpoint does when asked
EndpointStates == {"ok", "non200", "timeout", "neterr"}
\* what the database does with one batch
BatchOutcomes ==
  {"rows", "norows", "commit_error", "programming_error", "db_error",
   "fetch_error", "unexpected"}
\* cursor.rowcount after a batch without result set
RowCounts == {0, 1}

(***************************************************************************)
(* State.                                                                  *)
(***************************************************************************)
VARIABLES
  \* environment
  has_config,       \* DatabaseService.config_file.exists()
  has_password,     \* DatabaseService.get_password() is not None
  db_up,            \* the database accepts connections
  ep_state,         \* how the endpoint answers
  \* TriggerEndpointService.fetch_and_execute_trigger
  pc,               \* position in the function
  runs,             \* invocations so far
  decrypted_text, formatted_sql, corrected_sql,
  result,           \* the returned tuple (success, message, sql)
  escaped,          \* an exception left the function
  calls,            \* the external calls of this run, in order, with outcome
  \* DatabaseService.execute_query
  epc,              \* position in execute_query
  batches, batch_i, results, last_rowcount, executed_batches,
  connection,       \* "none", "open", "closed"
  opened,           \* connections opened by this call
  attempted,        \* batches handed to cursor.execute
  failed_batch,     \* 1-based index of the failing batch, 0 = none
  pending,          \* batches executed in the open transaction
  committed,        \* batches whose effects are committed
  exec_result,      \* the returned tuple (success, message, results)
  db_events,        \* what the database answered to each executed batch
  \* Dashboard and TriggerFetchWorker
  trigger_fetch_worker, worker_state, started, signals, handlers, crashed,
  \* one call of a helper function on its own
  fn,               \* the function and how far the call has got
  input,            \* its arguments
  output            \* what it returned

envVars == <<has_config, has_password, db_up, ep_state>>
runVars == <<pc, runs, decrypted_text, formatted_sql, corrected_sql, result,
             escaped, calls>>
execVars == <<epc, batches, batch_i, results, last_rowcount, executed_batches,
              connection, opened, attempted, failed_batch, pending, committed,
              exec_result, db_events>>
uiVars == <<trigger_fetch_worker, worker_state, started, signals, handlers,
            crashed>>
fnVars == <<fn, input, output>>
vars == <<envVars, runVars, execVars, uiVars, fnVars>>

NoResult == [success |-> FALSE, message |-> "<none>", sql |-> None]
NoExecResult == [success |-> FALSE, message |-> "<none>", results |-> <<>>]

ExecInit ==
  /\ epc = "none"
  /\ batches = <<>>
  /\ batch_i = 0
  /\ results = <<>>
  /\ last_rowcount = 0
  /\ executed_batches = 0
  /\ connection = "none"
  /\ opened = 0
  /\ attempted = 0
  /\ failed_batch = 0
  /\ pending = {}
  /\ committed = {}
  /\ exec_result = NoExecResult
  /\ db_events = <<>>

ExecReset ==
  /\ epc' = "none"
  /\ batches' = <<>>
  /\ batch_i' = 0
  /\ results' = <<>>
  /\ last_rowcount' = 0
  /\ executed_batches' = 0
  /\ connection' = "none"
  /\ opened' = 0
  /\ attempted' = 0
  /\ failed_batch' = 0
  /\ pending' = {}
  /\ committed' = {}
  /\ exec_result' = NoExecResult
  /\ db_events' = <<>>

UiInit ==
  /\ trigger_fetch_worker = 0
  /\ worker_state = [w \in 1..MaxWorkers |-> "new"]
  /\ started = 0
  /\ signals = <<>>
  /\ handlers = <<>>
  /\ crashed = FALSE

\* no helper function is being called on its own
FnInit ==
  /\ fn = "none"
  /\ input = <<>>
  /\ output = <<>>

\* no invocation of fetch_and_execute_trigger yet
RunInit ==
  /\ pc = "idle"
  /\ runs = 0
  /\ decrypted_text = None
  /\ formatted_sql = None
  /\ corrected_sql = None
  /\ result = NoResult
  /\ escaped = FALSE
  /\ calls = <<>>

Init ==
  /\ has_config \in BOOLEAN
  /\ has_password \in BOOLEAN
  /\ db_up \in BOOLEAN
  /\ ep_state \in EndpointStates
  /\ pc = "idle"
  /\ runs = 0
  /\ decrypted_text = None
  /\ formatted_sql = None
  /\ corrected_sql = None
  /\ result = NoResult
  /\ escaped = FALSE
  /\ calls = <<>>
  /\ ExecInit
  /\ UiInit
  /\ FnInit

(***************************************************************************)
(* The environment: database and endpoint come and go at any time.         *)
(***************************************************************************)
EnvChange ==
  /\ pc \notin {"idle", "returned"}
  /\ \/ db_up' = ~db_up /\ ep_state' = ep_state
     \/ db_up' = db_up /\ ep_state' \in EndpointStates \ {ep_state}
  /\ UNCHANGED <<has_config, has_password, runVars, execVars, uiVars,
                 fnVars>>

(***************************************************************************)
(* DatabaseService.has_saved_credentials, test_connection                  *)
(***************************************************************************)
\* the test for the configuration file alone
has_saved_config == has_config
has_saved_credentials == has_config /\ has_password

\* a fresh connection attempt: succeeds iff a password is stored and the
\* database answers now
test_connection == has_password /\ db_up

(***************************************************************************)
(* TriggerEndpointService.fetch_and_execute_trigger                        *)
(***************************************************************************)
\* the record of one external call: where in the function it was made, what
\* was called, and whether it succeeded
Log(call, ok) ==
  calls' = Append(calls, [stage |-> pc, call |-> call, ok |-> ok])

\* a failing stage is entered again instead of ending the run
ReturnOrRetry(success, message, sql) ==
  /\ pc' = IF success THEN "returned" ELSE pc
  /\ result' = [success |-> success, message |-> message, sql |-> sql]
  /\ escaped' = FALSE

\* return (success, message, sql)
Return(success, message, sql) ==
  /\ pc' = "returned"
  /\ result' = [success |-> success, message |-> message, sql |-> sql]
  /\ escaped' = FALSE

\* the exception leaves the function
Propagate(message) ==
  /\ pc' = "returned"
  /\ result' = NoResult
  /\ escaped' = TRUE

\* except Exception as e: return False, ..., None
CatchAll(message) == Return(FALSE, message, None)

Goto(next) ==
  /\ pc' = next
  /\ UNCHANGED <<result, escaped>>

\* the checks on the probe outcomes: `if not db_success`, and
\* `status_code != 200` with the Timeout and RequestException handlers
Phase1DbFails(db_success) == ~db_success
Phase1EndpointIgnored(status) == FALSE
Phase1EndpointFails(status) == status # "ok"
Phase2DbFails(db_success) == ~db_success
Phase2EndpointIgnored(status) == FALSE
Phase2EndpointFails(status) == status # "ok"

\* the outcome the final database check works with: a new test_connection()
FinalDbProbeCached == Len(calls) >= 1 /\ calls[1].ok
FinalDbProbe == test_connection

\* the third component returned once corrected_sql exists
NoSqlAttached(sql) == None
AttachedSql(sql) == sql

Invoke ==
  /\ pc \in {"idle", "returned"}
  /\ runs < MaxRuns
  /\ runs' = runs + 1
  /\ pc' = "probe_db_1"
  /\ decrypted_text' = None
  /\ formatted_sql' = None
  /\ corrected_sql' = None
  /\ result' = NoResult
  /\ escaped' = FALSE
  /\ calls' = <<>>
  /\ ExecReset
  /\ UNCHANGED <<envVars, uiVars, fnVars>>

ProbeDb1 ==
  /\ pc = "probe_db_1"
  /\ IF ~has_saved_credentials
     THEN Return(FALSE, "no_credentials", None) /\ UNCHANGED calls
     ELSE /\ Log("test_connection", test_connection)
          /\ IF Phase1DbFails(test_connection)
             THEN Return(FALSE, "db_failed", None)
             ELSE Goto("probe_endpoint_1")
  /\ UNCHANGED <<envVars, runs, decrypted_text, formatted_sql, corrected_sql,
                 execVars, uiVars, fnVars>>

ProbeEndpoint1 ==
  /\ pc = "probe_endpoint_1"
  /\ \/ \* _get_license_headers raises
        CatchAll("unexpected") /\ UNCHANGED calls
     \/ /\ Log("get_probe", ep_state = "ok")
        /\ IF Phase1EndpointFails(ep_state)
           THEN Return(FALSE,
                       CASE ep_state = "non200" -> "endpoint_failed"
                         [] ep_state = "timeout" -> "endpoint_timeout"
                         [] OTHER -> "endpoint_network_error",
                       None)
           ELSE Goto("fetch")
  /\ UNCHANGED <<envVars, runs, decrypted_text, formatted_sql, corrected_sql,
                 execVars, uiVars, fnVars>>

Fetch ==
  /\ pc = "fetch"
  /\ IF ep_state = "ok"
     THEN \E body \in Bodies :
            /\ Log("get_fetch", body = "list")
            /\ IF body = "list" THEN Goto("decrypt")
               ELSE Return(FALSE,
                           CASE body = "empty_text" -> "no_data"
                             [] body = "invalid_json" -> "invalid_json"
                             [] body = "object" -> "not_a_list_dict"
                             [] body = "scalar" -> "not_a_list_other"
                             [] OTHER -> "empty_list",
                           None)
     ELSE /\ Log("get_fetch", FALSE)
          /\ IF ep_state = "non200" THEN Return(FALSE, "fetch_http_error", None)
             ELSE IF ep_state = "timeout" THEN CatchAll("fetch_timeout")
             ELSE CatchAll("network_error")
  /\ UNCHANGED <<envVars, runs, decrypted_text, formatted_sql, corrected_sql,
                 execVars, uiVars, fnVars>>

Decrypt ==
  /\ pc = "decrypt"
  /\ \/ \* decrypt_from_n8n_format raises
        /\ Log("decrypt", FALSE)
        /\ Return(FALSE, "decrypt_failed", None)
        /\ UNCHANGED decrypted_text
     \/ \E text \in DecryptedTexts :
          /\ decrypted_text' = text
          /\ IF text = <<>> \/ strip(text) = <<>>
             THEN Return(FALSE, "decrypted_empty", None) /\ Log("decrypt", FALSE)
             ELSE Goto("normalize") /\ Log("decrypt", TRUE)
  /\ UNCHANGED <<envVars, runs, formatted_sql, corrected_sql, execVars, uiVars,
                 fnVars>>

Normalize ==
  /\ pc = "normalize"
  /\ formatted_sql' = format_sql_for_execution(decrypted_text)
  /\ IF formatted_sql' = <<>> \/ strip(formatted_sql') = <<>>
     THEN Return(FALSE, "formatted_empty", None) /\ Log("format", FALSE)
     ELSE Goto("repair") /\ Log("format", TRUE)
  /\ UNCHANGED <<envVars, runs, decrypted_text, corrected_sql, execVars,
                 uiVars, fnVars>>

Repair ==
  /\ pc = "repair"
  /\ corrected_sql' = fix_trigger_structure(formatted_sql)
  /\ Log("fix", TRUE)
  /\ Goto("probe_db_2")
  /\ UNCHANGED <<envVars, runs, decrypted_text, formatted_sql, execVars,
                 uiVars, fnVars>>

ProbeDb2 ==
  /\ pc = "probe_db_2"
  /\ Log("test_connection", test_connection)
  /\ IF Phase2DbFails(FinalDbProbe)
     THEN Return(FALSE, "final_db_failed", AttachedSql(corrected_sql))
     ELSE Goto("probe_endpoint_2")
  /\ UNCHANGED <<envVars, runs, decrypted_text, formatted_sql, corrected_sql,
                 execVars, uiVars, fnVars>>

ProbeEndpoint2 ==
  /\ pc = "probe_endpoint_2"
  /\ Log("get_probe", ep_state = "ok")
  /\ IF Phase2EndpointFails(ep_state)
     THEN Return(FALSE,
                 CASE ep_state = "non200" -> "final_endpoint_failed"
                   [] ep_state = "timeout" -> "final_endpoint_timeout"
                   [] OTHER -> "final_endpoint_network_error",
                 AttachedSql(corrected_sql))
     ELSE Goto("execute")
  /\ UNCHANGED <<envVars, runs, decrypted_text, formatted_sql, corrected_sql,
                 execVars, uiVars, fnVars>>

(***************************************************************************)
(* DatabaseService.execute_query, called at the end of the pipeline.       *)
(***************************************************************************)
NoRows == None
RowsOf(i) == <<"rows", ToString(i)>>
RowCountOf(n) == <<"rowcount", ToString(n)>>

\* where the loop goes after batch i of n: an error returns at once
AfterBatchIgnoringErrors(i, n, failed) == IF i + 1 > n THEN "final" ELSE "loop"
AfterBatch(i, n, failed) ==
  IF failed THEN "done" ELSE IF i + 1 > n THEN "final" ELSE "loop"

\* the message on overall success
SuccessMessage ==
  IF results # NoRows THEN "results"
  ELSE IF last_rowcount > 0 THEN "rows_affected" ELSE "batches_executed"

\* `if success:` after execute_query: the run is reported as a success
TriggerUpdatedAnyway(success) == TRUE
TriggerUpdated(success) == success

\* execute_query returns; fetch_and_execute_trigger turns the tuple into its
\* own result
ExecReturn(success, message) ==
  /\ epc' = "done"
  /\ exec_result' = [success |-> success, message |-> message,
                     results |-> IF ~success THEN NoRows
                                 ELSE IF results # NoRows THEN results
                                 ELSE RowCountOf(last_rowcount)]
  /\ calls' = [calls EXCEPT ![Len(calls)].ok = success]
  /\ IF TriggerUpdated(success)
     THEN Return(TRUE, "trigger_updated", AttachedSql(corrected_sql))
     ELSE Return(FALSE, "sql_failed", AttachedSql(corrected_sql))

\* connection.close(): what was not committed is rolled back
Close ==
  /\ connection' = "closed"
  /\ pending' = {}

ExecuteStart ==
  /\ pc = "execute"
  /\ epc = "none"
  /\ Log("execute_query", FALSE)
  /\ batches' = split_sql_batches(corrected_sql)
  /\ IF batches' = <<>>
     THEN /\ epc' = "done"
          /\ exec_result' = [success |-> FALSE, message |-> "no_commands",
                             results |-> NoRows]
          /\ Return(FALSE, "sql_failed", AttachedSql(corrected_sql))
     ELSE /\ epc' = "connect"
          /\ UNCHANGED <<exec_result, pc, result, escaped>>
  /\ UNCHANGED <<envVars, runs, decrypted_text, formatted_sql, corrected_sql,
                 batch_i, results, last_rowcount, executed_batches, connection,
                 opened, attempted, failed_batch, pending, committed,
                 db_events, uiVars, fnVars>>

ExecuteConnect ==
  /\ pc = "execute"
  /\ epc = "connect"
  /\ IF has_password /\ db_up
     THEN /\ connection' = "open"
          /\ opened' = opened + 1
          /\ epc' = "loop"
          /\ batch_i' = 1
          /\ results' = NoRows
          /\ last_rowcount' = 0
          /\ executed_batches' = 0
          /\ UNCHANGED <<exec_result, calls, pc, result, escaped>>
     ELSE \* pyodbc.connect raises OperationalError
          /\ ExecReturn(FALSE, "connection_error")
          /\ UNCHANGED <<connection, opened, batch_i, results, last_rowcount,
                         executed_batches>>
  /\ UNCHANGED <<envVars, runs, decrypted_text, formatted_sql, corrected_sql,
                 batches, attempted, failed_batch, pending, committed,
                 db_events, uiVars, fnVars>>

\* one iteration of `for i, batch in enumerate(batches, 1)`
ExecuteBatch ==
  /\ pc = "execute"
  /\ epc = "loop"
  /\ batch_i <= Len(batches)
  /\ IF strip(batches[batch_i]) = <<>>
     THEN \* continue
          /\ batch_i' = batch_i + 1
          /\ epc' = IF batch_i + 1 > Len(batches) THEN "final" ELSE "loop"
          /\ UNCHANGED <<results, last_rowcount, executed_batches, connection,
                         attempted, failed_batch, pending, committed,
                         exec_result, db_events, calls, pc, result, escaped>>
     ELSE \E outcome \in BatchOutcomes, rowcount \in RowCounts :
          /\ db_up \/ outcome = "db_error"
          /\ outcome = "norows" \/ rowcount = 0
          /\ attempted' = attempted + 1
          /\ db_events' = Append(db_events, [batch |-> batch_i,
                                             outcome |-> outcome,
                                             rowcount |-> rowcount])
          /\ LET failed == outcome \notin {"rows", "norows"}
                 next == AfterBatch(batch_i, Len(batches), failed)
             IN /\ failed_batch' = IF failed THEN batch_i ELSE failed_batch
                /\ results' = IF outcome = "rows" THEN RowsOf(batch_i) ELSE results
                /\ last_rowcount' = IF outcome \in {"norows", "commit_error"}
                                    THEN rowcount ELSE last_rowcount
                /\ executed_batches' = IF failed THEN executed_batches
                                       ELSE executed_batches + 1
                /\ committed' = IF outcome = "norows"
                                THEN committed \cup pending \cup {batch_i}
                                ELSE committed
                /\ IF next = "done"
                   THEN /\ IF outcome = "unexpected"
                           THEN \* except Exception: no cleanup
                                UNCHANGED <<connection, pending>>
                           ELSE Close
                        /\ ExecReturn(FALSE,
                                      IF outcome = "unexpected" THEN "unexpected"
                                      ELSE "batch_error")
                        /\ UNCHANGED batch_i
                   ELSE /\ batch_i' = batch_i + 1
                        /\ epc' = next
                        /\ pending' = IF outcome = "rows"
                                      THEN pending \cup {batch_i}
                                      ELSE IF outcome = "norows" THEN {}
                                      ELSE pending
                        /\ UNCHANGED <<connection, exec_result, calls, pc,
                                       result, escaped>>
  /\ UNCHANGED <<envVars, runs, decrypted_text, formatted_sql, corrected_sql,
                 batches, opened, uiVars, fnVars>>

\* the final commit and cleanup after the loop
ExecuteFinish ==
  /\ pc = "execute"
  /\ epc = "final"
  /\ \/ /\ db_up
        /\ committed' = committed \cup pending
        /\ Close
        /\ ExecReturn(TRUE, SuccessMessage)
     \/ \* connection.commit() raises pyodbc.Error: no cleanup
        /\ ExecReturn(FALSE, "commit_error")
        /\ UNCHANGED <<connection, pending, committed>>
  /\ UNCHANGED <<envVars, runs, decrypted_text, formatted_sql, corrected_sql,
                 batches, batch_i, results, last_rowcount, executed_batches,
                 opened, attempted, failed_batch, db_events, uiVars, fnVars>>

\* the steps of one run
PipelineStep ==
  \/ ProbeDb1
  \/ ProbeEndpoint1
  \/ Fetch
  \/ Decrypt
  \/ Normalize
  \/ Repair
  \/ ProbeDb2
  \/ ProbeEndpoint2
  \/ ExecuteStart
  \/ ExecuteConnect
  \/ ExecuteBatch
  \/ ExecuteFinish

Next ==
  \/ Invoke
  \/ PipelineStep
  \/ EnvChange

Spec == Init /\ [][Next]_vars

(***************************************************************************)
(* Helper functions called on their own.  The services and the dashboard   *)
(* are at rest; one function is applied to one input.                      *)
(***************************************************************************)
AtRest ==
  /\ has_config = TRUE
  /\ has_password = TRUE
  /\ db_up = TRUE
  /\ ep_state = "ok"
  /\ RunInit
  /\ ExecInit
  /\ UiInit

Min(a, b) == IF a <= b THEN a ELSE b

(***************************************************************************)
(* DatabaseService._analyze_sql_error, as called by the two handlers of a  *)
(* failing batch in execute_query.  The error text is the set of the       *)
(* markers it contains (words in lower case); a batch text is a sequence   *)
(* of characters.                                                          *)
(***************************************************************************)
ErrorMarks ==
  {"18456", "login failed", "authentifizierungsfehler",
   "42000", "102", "156", "syntax",
   "229", "230", "300", "permission", "berechtigung", "zugriff",
   "208", "2812", "object", "not found"}

\* `"x" in error_str`, `"x" in error_lower`
In(mark, error_str) == mark \in error_str

\* sql_batch[:300] and the '...' that follows a longer batch
BatchExcerpt(sql_batch) == SubSeq(sql_batch, 1, Min(300, Len(sql_batch)))
Ellipsis(sql_batch) == Len(sql_batch) > 300

\* e.args[0] of an exception without arguments
NoCode == "<None>"

\* f"{error_code or default}"
CodeOr(error_code, default) ==
  IF error_code = NoCode THEN default ELSE error_code

\* the message, as the parts it is formatted from; 0 and None stand for a
\* part the message does not have
Message(class, batch_num, total_batches, code, details, excerpt, dots) ==
  [class |-> class, batch_num |-> batch_num, total_batches |-> total_batches,
   code |-> code, details |-> details, excerpt |-> excerpt, dots |-> dots]

analyze_sql_error(error_str, error_code, sql_batch, batch_num, total_batches) ==
  IF \/ In("18456", error_str) \/ In("login failed", error_str)
     \/ In("authentifizierungsfehler", error_str)
  THEN Message("authentication", 0, 0, "18456", error_str, None, FALSE)
  ELSE IF \/ In("42000", error_str) \/ In("102", error_str)
          \/ In("156", error_str) \/ In("syntax", error_str)
  THEN Message("syntax", batch_num, total_batches,
               CodeOr(error_code, "42000"), error_str,
               BatchExcerpt(sql_batch), Ellipsis(sql_batch))
  ELSE IF \/ In("229", error_str) \/ In("230", error_str)
          \/ In("300", error_str) \/ In("permission", error_str)
          \/ In("berechtigung", error_str) \/ In("zugriff", error_str)
  THEN Message("permission", batch_num, total_batches,
               CodeOr(error_code, "229/230"), error_str, None, FALSE)
  ELSE IF \/ In("208", error_str) \/ In("2812", error_str)
          \/ (In("object", error_str) /\ In("not found", error_str))
  THEN Message("not_found", batch_num, total_batches,
               CodeOr(error_code, "208"), error_str, None, FALSE)
  ELSE Message("general",
               IF total_batches > 1 THEN batch_num ELSE 0,
               IF total_batches > 1 THEN total_batches ELSE 0,
               CodeOr(error_code, "Unbekannt"), error_str,
               BatchExcerpt(sql_batch), Ellipsis(sql_batch))

\* a batch text of n characters
TextOfLen(n) == [k \in 1..n |-> "x"]

ErrorTexts == {S \in SUBSET ErrorMarks : Cardinality(S) <= MaxMarks}
ErrorCodes == {NoCode, "42000", "HY000"}
BatchLengths == {1, 200, 201, 300, 301}

ErrorInputs ==
  [error_str : ErrorTexts, error_code : ErrorCodes,
   sql_batch : {TextOfLen(n) : n \in BatchLengths},
   total_batches : 1..MaxBatches, batch_num : 1..MaxBatches]

InitError ==
  /\ AtRest
  /\ fn = "analyze"
  /\ input \in {x \in ErrorInputs : x.batch_num <= x.total_batches}
  /\ output = <<>>

\* `except pyodbc.ProgrammingError` / `except pyodbc.Error` around one batch:
\* error_message = self._analyze_sql_error(...); return False, error_message
AnalyzeError ==
  /\ fn = "analyze"
  /\ fn' = "analyzed"
  /\ output' = analyze_sql_error(input.error_str, input.error_code,
                                 input.sql_batch, input.batch_num,
                                 input.total_batches)
  /\ UNCHANGED <<input, envVars, runVars, execVars, uiVars>>

SpecError == InitError /\ [][AnalyzeError]_vars

(***************************************************************************)
(* DecryptService.fix_trigger_structure applied to a script, and again to  *)
(* its own result.                                                         *)
(***************************************************************************)
TriggerHeader == <<"CREATE", SP, "TRIGGER", SP, "S1", SP, "AS">>
TriggerGaps == {<<SP>>, <<NL>>}
TriggerOpenings ==
  {<<>>, <<"SET", SP, "NOCOUNT", SEMI, SP>>, <<"BEGIN", NL>>,
   <<"SET", SP, "NOCOUNT", SEMI, SP, "S3", SEMI, SP>>}
TriggerBodies ==
  {<<"S2">>, <<"IF", SP, "BEGIN", SP, "S2">>,
   <<"IF", SP, "BEGIN", SP, "S2", SP, "END">>, <<"DECLARE", SP, "S2">>}
TriggerEndings ==
  {<<NL, "GO">>, <<NL, "END", NL, "GO">>, <<>>, <<NL, "GO", SEMI>>}

\* a script that has the shape pattern1 looks for but creates no trigger
ProcedureScript ==
  <<"CREATE", SP, "PROCEDURE", SP, "S1", SP, "AS", SP, "SET", SP, "NOCOUNT",
    SEMI, SP, "IF", SP, "BEGIN", SP, "S2", NL, "GO">>

LowerCaseTrigger ==
  <<"create", SP, "trigger", SP, "S1", SP, "as", SP, "set", SP, "NOCOUNT",
    SEMI, SP, "IF", SP, "begin", SP, "S2", NL, "go">>

RepairTexts ==
  {TriggerHeader \o g \o o \o b \o e :
     g \in TriggerGaps, o \in TriggerOpenings, b \in TriggerBodies,
     e \in TriggerEndings}
    \cup {Script(n) : n \in 1..MaxBatches}
    \cup {ProcedureScript, LowerCaseTrigger, <<>>, <<SP, NL>>}

InitRepair ==
  /\ AtRest
  /\ fn = "repair"
  /\ input \in RepairTexts
  /\ output = <<>>

\* corrected = fix_trigger_structure(sql_text)
RepairOnce ==
  /\ fn = "repair"
  /\ fn' = "repaired"
  /\ output' = <<fix_trigger_structure(input)>>
  /\ UNCHANGED <<input, envVars, runVars, execVars, uiVars>>

\* fix_trigger_structure(corrected)
RepairAgain ==
  /\ fn = "repaired"
  /\ fn' = "repaired_twice"
  /\ output' = Append(output, fix_trigger_structure(output[1]))
  /\ UNCHANGED <<input, envVars, runVars, execVars, uiVars>>

SpecRepair == InitRepair /\ [][RepairOnce \/ RepairAgain]_vars

(***************************************************************************)
(* DatabaseService._build_connection_string                                *)
(***************************************************************************)
\* an argument that was not given, or a password the keyring does not have
Unset == "<None>"

\* Python's `a or b`: b when a is None or empty
Or(a, b) == IF a \in {Unset, ""} THEN b ELSE a

\* f"KEY={value};"
Field(key, value) == <<key, "=", value, ";">>

\* the parenthesised expression of lines 266-273: adjacent string literals
\* are joined before the conditional expression is applied, so it reads
\* (DRIVER SERVER DATABASE) if test_database else (UID PWD Trusted_Connection)
build_connection_string(args, config, keyring_password) ==
  LET test_server == Or(args.server, config.server)
      test_username == Or(args.username, config.username)
      test_password == Or(args.password, keyring_password)
      test_database == Or(args.database, config.database)
      test_driver == Or(args.driver, config.driver)
  IN IF test_database \notin {Unset, ""}
     THEN <<"DRIVER", "=", "{", test_driver, "}", ";">>
            \o Field("SERVER", test_server)
            \o Field("DATABASE", test_database)
     ELSE Field("UID", test_username)
            \o Field("PWD", Or(test_password, ""))
            \o Field("Trusted_Connection", "no")

\* the arguments of a call and the saved configuration
ConnectionArgs ==
  [server : {Unset, "10.0.0.2"}, username : {Unset, "tester"},
   password : {Unset, "pw2"}, database : {Unset, "master"},
   driver : {Unset, "SQL Server"}]

ConnectionConfigs ==
  [server : {"10.0.0.1"}, username : {"sa"},
   database : {"", "eazybusiness"}, driver : {"ODBC Driver 17"}]

InitConnect ==
  /\ AtRest
  /\ fn = "connection_string"
  /\ input \in [args : ConnectionArgs, config : ConnectionConfigs,
                 keyring_password : {Unset, "pw1"}]
  /\ output = <<>>

\* connection_string = self._build_connection_string(...)
BuildConnectionString ==
  /\ fn = "connection_string"
  /\ fn' = "connection_string_built"
  /\ output' = build_connection_string(input.args, input.config,
                                       input.keyring_password)
  /\ UNCHANGED <<input, envVars, runVars, execVars, uiVars>>

SpecConnect == InitConnect /\ [][BuildConnectionString]_vars

(***************************************************************************)
(* DecryptService.format_sql_for_execution applied to a text of a few      *)
(* characters.                                                             *)
(***************************************************************************)
FormatAlphabet == {SP, NL, TAB, NUL, CSI, ZWSP, WJ, BOM, "S1"}

\* every text of at most chars characters
FormatTexts(chars) ==
  UNION {[1..n -> FormatAlphabet] : n \in 0..chars}

InitFormat ==
  /\ AtRest
  /\ fn = "format"
  /\ input \in FormatTexts(MaxChars)
  /\ output = <<>>

\* sql_query = format_sql_for_execution(decrypted_text)
FormatText ==
  /\ fn = "format"
  /\ fn' = "formatted"
  /\ output' = format_sql_for_execution(input)
  /\ UNCHANGED <<input, envVars, runVars, execVars, uiVars>>

SpecFormat == InitFormat /\ [][FormatText]_vars

(***************************************************************************)
(* DatabaseService._split_sql_batches applied to a script of a few lines.  *)
(***************************************************************************)
ScriptLines ==
  {<<"S1">>, <<"S2", SP, "S3">>, <<>>, <<SP>>, <<"GO">>, <<"go">>,
   <<"Go", SEMI>>, <<SP, "GO", SP, SEMI, SP>>, <<"GO", SP, "S1">>}

\* every script of at most lines lines
SplitTexts(lines) ==
  UNION {{JoinLines(ls) : ls \in [1..n -> ScriptLines]} : n \in 1..lines}

InitSplit ==
  /\ AtRest
  /\ fn = "split"
  /\ input \in SplitTexts(MaxLines)
  /\ output = <<>>

\* batches = self._split_sql_batches(query)
SplitBatches ==
  /\ fn = "split"
  /\ fn' = "split_done"
  /\ output' = split_sql_batches(input)
  /\ UNCHANGED <<input, envVars, runVars, execVars, uiVars>>

SpecSplit == InitSplit /\ [][SplitBatches]_vars

(***************************************************************************)
(* decrypt_utils.decrypt_from_n8n_format and the paired                    *)
(* CryptoUtils.encrypt_text.  A text is a sequence of code points below    *)
(* 2048, encoded in UTF-8 as one or two bytes each.  AES-256-CBC is the    *)
(* ideal cipher: a ciphertext is the term [key, iv, blocks], decrypting it *)
(* with the same key gives the blocks back, decrypting it with another key *)
(* gives noise.  Base64 is a bijection and is left out.                    *)
(***************************************************************************)
BlockSize == 16

\* str.encode() / bytes.decode('utf-8')
EncodeChar(cp) ==
  IF cp < 128 THEN <<cp>> ELSE <<192 + (cp \div 64), 128 + (cp % 64)>>

RECURSIVE Encode(_)
Encode(text) ==
  IF text = <<>> THEN <<>> ELSE EncodeChar(Head(text)) \o Encode(Tail(text))

RECURSIVE Decode(_)
Decode(bytes) ==
  IF bytes = <<>> THEN [ok |-> TRUE, text |-> <<>>]
  ELSE IF bytes[1] < 128
  THEN LET rest == Decode(Tail(bytes))
       IN [ok |-> rest.ok, text |-> <<bytes[1]>> \o rest.text]
  ELSE IF /\ bytes[1] \in 194..223
          /\ Len(bytes) >= 2
          /\ bytes[2] \in 128..191
  THEN LET rest == Decode(SubSeq(bytes, 3, Len(bytes)))
       IN [ok |-> rest.ok,
           text |-> <<(bytes[1] - 192) * 64 + (bytes[2] - 128)>> \o rest.text]
  ELSE [ok |-> FALSE, text |-> <<>>]

\* n copies of x: chr(pad_len) * pad_len
Repeat(x, n) == [k \in 1..n |-> x]

\* SHA256.new(password.encode()).digest()
DeriveKey(password) == <<"SHA256", password>>

\* AES.new(key, AES.MODE_CBC, iv).encrypt(data)
AesEncrypt(key, iv, data) == [key |-> key, iv |-> iv, blocks |-> data]

\* AES.new(key, AES.MODE_CBC, iv).decrypt(data): the length must be a
\* multiple of the block size
AesDecrypt(key, iv, data, noise) ==
  IF Len(data.blocks) % BlockSize # 0 THEN [ok |-> FALSE, bytes |-> <<>>]
  ELSE IF data.key = key /\ data.iv = iv
  THEN [ok |-> TRUE, bytes |-> data.blocks]
  ELSE [ok |-> TRUE, bytes |-> noise]

\* pad_len = 16 - len(text.encode()) % 16, without the full block of padding
\* for a length that is a multiple of 16
PadLenNoFullBlock(n) == (16 - (n % 16)) % 16
\* pad_len = 16 - len(text.encode()) % 16
PadLen(n) == 16 - (n % 16)

\* CryptoUtils.encrypt_text(text, key) with the IV that get_random_bytes gave
encrypt_text(text, key, iv) ==
  LET aes_key == DeriveKey(key)
      pad_len == PadLen(Len(Encode(text)))
      padded == text \o Repeat(pad_len, pad_len)
  IN [iv |-> iv, encrypted |-> AesEncrypt(aes_key, iv, Encode(padded))]

\* the padding is accepted whenever its length is in range
PaddingLengthOnly(padded_text) ==
  LET pad_len == padded_text[Len(padded_text)]
  IN IF pad_len < 1 \/ pad_len > 16 THEN "Ungueltige Padding-Laenge" ELSE "ok"

\* the two checks on the padding, lines 95-104
PaddingCheck(padded_text) ==
  LET pad_len == padded_text[Len(padded_text)]
      n == Len(padded_text)
  IN IF pad_len < 1 \/ pad_len > 16 THEN "Ungueltige Padding-Laenge"
     ELSE IF \E k \in (n - pad_len + 1)..n : padded_text[k] # pad_len
     THEN "Ungueltiges Padding-Format"
     ELSE "ok"

\* "".join(decrypted_parts) with a newline between the parts
JoinPartsWithNewline(decrypted_parts, part) ==
  IF decrypted_parts = <<>> THEN part ELSE decrypted_parts \o <<10>> \o part
\* decrypted_parts.append(decrypted_str) ... "".join(decrypted_parts)
JoinParts(decrypted_parts, part) == decrypted_parts \o part

Raise(error) == [ok |-> FALSE, error |-> error, text |-> <<>>]

\* lines 88-111: decrypt, check and remove the padding, decode
DecryptBytes(decoded_iv, decoded_encrypted, key, noise) ==
  LET plain == AesDecrypt(key, decoded_iv, decoded_encrypted, noise)
  IN IF ~plain.ok THEN Raise("Entschluesselungsfehler")
     ELSE LET padded_text == plain.bytes
              check == PaddingCheck(padded_text)
          IN IF check # "ok" THEN Raise(check)
             ELSE LET pad_len == padded_text[Len(padded_text)]
                      decrypted_bytes ==
                        SubSeq(padded_text, 1, Len(padded_text) - pad_len)
                      decrypted_str == Decode(decrypted_bytes)
                  IN IF ~decrypted_str.ok
                     THEN Raise("UTF-8 Decodierung fehlgeschlagen")
                     ELSE [ok |-> TRUE, error |-> "",
                           text |-> decrypted_str.text]

\* An item is a record: [iv, encrypted], or that under the key json.  What
\* is not a dictionary is the record [not_dict], a field that is missing is
\* missing from the record, and a field that is not Base64 is [not_base64].
IsDict(x) == "not_dict" \notin DOMAIN x
Has(d, field) == field \in DOMAIN d
IsBase64(x) == "not_base64" \notin DOMAIN x

\* the body of `for item in items`: the text of one item, or the error
DecryptItem(item, key, noise) ==
  IF ~IsDict(item) THEN Raise("Item ist kein Dictionary")
  ELSE LET json_data == IF "json" \in DOMAIN item THEN item.json ELSE item
       IN IF ~IsDict(json_data) THEN Raise("Daten sind kein Dictionary")
          ELSE IF ~Has(json_data, "iv") \/ json_data.iv = <<>>
          THEN Raise("IV fehlt im Item")
          ELSE IF \/ ~Has(json_data, "encrypted")
                  \/ /\ IsBase64(json_data.encrypted)
                     /\ json_data.encrypted.blocks = <<>>
          THEN Raise("encrypted Daten fehlen im Item")
          ELSE IF ~IsBase64(json_data.encrypted)
          THEN Raise("Base64-Decodierung fehlgeschlagen")
          ELSE IF Len(json_data.iv) # 16 THEN Raise("Ungueltige IV-Groesse")
          ELSE DecryptBytes(json_data.iv, json_data.encrypted, key, noise)

RECURSIVE DecryptLoop(_, _, _, _)
DecryptLoop(items, key, noise, decrypted_parts) ==
  IF items = <<>> THEN [ok |-> TRUE, error |-> "", text |-> decrypted_parts]
  ELSE LET part == DecryptItem(Head(items), key, noise)
       IN IF ~part.ok THEN part
          ELSE DecryptLoop(Tail(items), key, noise,
                           JoinParts(decrypted_parts, part.text))

decrypt_from_n8n_format(items, password, noise) ==
  IF items = <<>> THEN Raise("Items-Liste ist leer")
  ELSE IF password = "" THEN Raise("Passwort darf nicht leer sein")
  ELSE DecryptLoop(items, DeriveKey(password), noise, <<>>)

\* The inputs.  An envelope entry is an item together with what the sender
\* put into it: the plaintext, the padded bytes, and whether it is well-formed.
Passwords == {"geh31m", "other", ""}
SenderPassword == "geh31m"
Iv16 == Repeat(7, 16)
Iv15 == Repeat(7, 15)

\* what the cipher gives back under a key the data was not encrypted with
NoiseBlocks == {Repeat(255, 16), Repeat(120, 15) \o <<1>>}

PlainTexts ==
  {Repeat(c, n) : c \in {97, 233, 16}, n \in 0..MaxText}

Crafted(iv, padded) ==
  [iv |-> iv, encrypted |-> AesEncrypt(DeriveKey(SenderPassword), iv, padded)]

Wrapped(item) == [json |-> item]

Entry(item, plain, padded, valid) ==
  [item |-> item, plain |-> plain, padded |-> padded, valid |-> valid]

ValidEntries ==
  UNION {LET item == encrypt_text(t, SenderPassword, Iv16)
         IN {Entry(item, t, item.encrypted.blocks, TRUE),
             Entry(Wrapped(item), t, item.encrypted.blocks, TRUE)} :
           t \in {<<97>>, <<98, 233>>, <<>>}}

BadPaddings ==
  {Repeat(97, 15) \o <<0>>, Repeat(97, 15) \o <<17>>,
   Repeat(97, 15) \o <<255>>, Repeat(97, 14) \o <<3, 2>>,
   <<5>> \o Repeat(16, 15), Repeat(97, 16) \o <<1>> \o Repeat(16, 15)}

InvalidEntries ==
  {Entry(Crafted(Iv16, b), <<>>, b, FALSE) : b \in BadPaddings}
    \cup {Entry(Wrapped(Crafted(Iv16, Repeat(97, 14) \o <<3, 2>>)), <<>>,
                 Repeat(97, 14) \o <<3, 2>>, FALSE),
           Entry(Crafted(Iv15, Repeat(16, 16)), <<>>, <<>>, FALSE),
           Entry(Crafted(Iv16, Repeat(97, 15)), <<>>, <<>>, FALSE),
           Entry(Crafted(Iv16, <<233>> \o Repeat(15, 15)), <<>>, <<>>, FALSE),
           Entry([encrypted |-> Crafted(Iv16, Repeat(16, 16)).encrypted],
                 <<>>, <<>>, FALSE),
           Entry([iv |-> Iv16], <<>>, <<>>, FALSE),
           Entry([iv |-> Iv16, encrypted |-> [not_base64 |-> TRUE]],
                 <<>>, <<>>, FALSE),
           Entry([not_dict |-> TRUE], <<>>, <<>>, FALSE),
           Entry(Wrapped([not_dict |-> TRUE]), <<>>, <<>>, FALSE)}

Envelopes ==
  UNION {[1..n -> ValidEntries \cup InvalidEntries] : n \in 0..MaxItems}

ItemsOf(envelope) == [k \in 1..Len(envelope) |-> envelope[k].item]

InitCrypto ==
  /\ AtRest
  /\ output = <<>>
  /\ \/ /\ fn = "encrypt"
        /\ input \in [text : PlainTexts, password : Passwords,
                       noise : NoiseBlocks]
     \/ /\ fn = "decrypt"
        /\ input \in [envelope : Envelopes, password : Passwords,
                       noise : NoiseBlocks]

\* item = CryptoUtils.encrypt_text(text, password)
EncryptText ==
  /\ fn = "encrypt"
  /\ fn' = "encrypted"
  /\ output' = <<encrypt_text(input.text, input.password, Iv16)>>
  /\ UNCHANGED <<input, envVars, runVars, execVars, uiVars>>

\* decrypt_from_n8n_format([item], password)
DecryptEncrypted ==
  /\ fn = "encrypted"
  /\ fn' = "decrypted"
  /\ output' = Append(output,
                      decrypt_from_n8n_format(<<output[1]>>, input.password,
                                              input.noise))
  /\ UNCHANGED <<input, envVars, runVars, execVars, uiVars>>

\* decrypt_from_n8n_format(items, password)
DecryptEnvelope ==
  /\ fn = "decrypt"
  /\ fn' = "decrypted_envelope"
  /\ output' = decrypt_from_n8n_format(ItemsOf(input.envelope),
                                       input.password, input.noise)
  /\ UNCHANGED <<input, envVars, runVars, execVars, uiVars>>

SpecCrypto ==
  InitCrypto /\ [][EncryptText \/ DecryptEncrypted \/ DecryptEnvelope]_vars

(***************************************************************************)
(* Dashboard.start_trigger_update, Dashboard.on_trigger_update_finished    *)
(* and TriggerFetchWorker.run.  Workers are numbered in creation order;    *)
(* trigger_fetch_worker = 0 is None.                                       *)
(***************************************************************************)
\* QThread.isRunning(): from start() until run() has returned
isRunning(w) == worker_state[w] \in {"running", "emitted"}

\* fetch_and_execute_trigger has not returned yet
InFlight(w) == worker_state[w] = "running"

\* `if self.trigger_fetch_worker and self.trigger_fetch_worker.isRunning()`
AlreadyRunning == trigger_fetch_worker # 0 /\ isRunning(trigger_fetch_worker)

start_trigger_update ==
  /\ ~crashed
  /\ started < MaxWorkers
  /\ IF AlreadyRunning
     THEN UNCHANGED <<trigger_fetch_worker, worker_state, started>>
     ELSE /\ started' = started + 1
          /\ trigger_fetch_worker' = started + 1
          /\ worker_state' = [worker_state EXCEPT ![started + 1] = "running"]
  /\ UNCHANGED <<signals, handlers, crashed, envVars, runVars, execVars,
                 fnVars>>

\* TriggerFetchWorker.run: the service call returns and finished is emitted;
\* the slot lives in the main thread, so the call is queued
WorkerEmit(w) ==
  /\ ~crashed
  /\ worker_state[w] = "running"
  /\ worker_state' = [worker_state EXCEPT ![w] = "emitted"]
  /\ signals' = Append(signals, w)
  /\ UNCHANGED <<trigger_fetch_worker, started, handlers, crashed, envVars,
                 runVars, execVars, fnVars>>

\* run() returns and the thread ends
WorkerExit(w) ==
  /\ ~crashed
  /\ worker_state[w] = "emitted"
  /\ worker_state' = [worker_state EXCEPT ![w] = "finished"]
  /\ UNCHANGED <<trigger_fetch_worker, started, signals, handlers, crashed,
                 envVars, runVars, execVars, fnVars>>

\* the end of on_trigger_update_finished: deleteLater() on whatever worker
\* the attribute names now, then None.  Deleting the thread object of a
\* thread that still runs either aborts the process or leaves the thread
\* running without an owner.
Cleanup ==
  IF trigger_fetch_worker = 0
  THEN UNCHANGED <<trigger_fetch_worker, crashed>>
  ELSE /\ trigger_fetch_worker' = 0
       /\ IF isRunning(trigger_fetch_worker)
          THEN crashed' \in BOOLEAN
          ELSE crashed' = FALSE

\* the queued finished signal reaches on_trigger_update_finished, in the top
\* event loop or in the event loop of an open dialog; the handler either
\* opens a message box (exec) or goes straight to the cleanup
on_trigger_update_finished ==
  /\ ~crashed
  /\ signals # <<>>
  /\ signals' = Tail(signals)
  /\ \E dialog \in BOOLEAN :
       IF dialog
       THEN /\ handlers' = Append(handlers, Head(signals))
            /\ UNCHANGED <<trigger_fetch_worker, crashed>>
       ELSE /\ Cleanup
            /\ UNCHANGED handlers
  /\ UNCHANGED <<worker_state, started, envVars, runVars, execVars, fnVars>>

\* the innermost message box is closed and its handler runs to the end
CloseDialog ==
  /\ ~crashed
  /\ handlers # <<>>
  /\ handlers' = SubSeq(handlers, 1, Len(handlers) - 1)
  /\ Cleanup
  /\ UNCHANGED <<worker_state, started, signals, envVars, runVars, execVars,
                 fnVars>>

UiNext ==
  \/ start_trigger_update
  \/ \E w \in 1..MaxWorkers : WorkerEmit(w)
  \/ \E w \in 1..MaxWorkers : WorkerExit(w)
  \/ on_trigger_update_finished
  \/ CloseDialog

SpecUI == Init /\ [][UiNext]_vars

TypeOK ==
  /\ pc \in {"idle", "probe_db_1", "probe_endpoint_1", "fetch", "decrypt",
             "normalize", "repair", "probe_db_2", "probe_endpoint_2",
             "execute", "returned"}
  /\ epc \in {"none", "connect", "loop", "final", "done"}
  /\ connection \in {"none", "open", "closed"}
  /\ runs \in 0..MaxRuns
  /\ trigger_fetch_worker \in 0..MaxWorkers
  /\ started \in 0..MaxWorkers

(***************************************************************************)
(* Properties.                                                             *)
(***************************************************************************)
Count(call) == Cardinality({k \in 1..Len(calls) : calls[k].call = call})
Performed(stage) == \E k \in 1..Len(calls) : calls[k].stage = stage
Succeeded(stage) == \E k \in 1..Len(calls) : calls[k].stage = stage /\ calls[k].ok
Failed(stage) == \E k \in 1..Len(calls) : calls[k].stage = stage /\ ~calls[k].ok
ExecuteCalls == Count("execute_query")

StageOrder ==
  <<"probe_db_1", "probe_endpoint_1", "fetch", "decrypt", "normalize",
    "repair", "probe_db_2", "probe_endpoint_2", "execute">>

\* C1: execute_query is invoked only if both phase-2 probes of the run
\* succeeded; when the phase-1 probes succeed and a phase-2 probe fails the
\* run returns a failure without having called execute_query.
C1_DualProbeGating ==
  /\ ExecuteCalls > 0 => Succeeded("probe_db_2") /\ Succeeded("probe_endpoint_2")
  /\ (/\ Succeeded("probe_db_1")
      /\ Succeeded("probe_endpoint_1")
      /\ Failed("probe_db_2") \/ Failed("probe_endpoint_2"))
     => pc = "returned" /\ ~result.success /\ ExecuteCalls = 0

C1_Witness ==
  /\ pc = "returned"
  /\ Succeeded("probe_db_1")
  /\ Succeeded("probe_endpoint_1")
  /\ Succeeded("probe_db_2")
  /\ Failed("probe_endpoint_2")
  /\ ~result.success

\* C2: the calls of a run follow the fixed stage order, each stage entered at
\* most once and only after every earlier stage succeeded; the payload is
\* fetched only after both phase-1 probes succeeded.
C2_FixedStageOrder ==
  /\ Len(calls) <= Len(StageOrder)
  /\ \A k \in 1..Len(calls) :
       /\ calls[k].stage = StageOrder[k]
       /\ k < Len(calls) => calls[k].ok
  /\ Performed("fetch") => Succeeded("probe_db_1") /\ Succeeded("probe_endpoint_1")

C2_Witness ==
  /\ pc = "returned"
  /\ result.success
  /\ Len(calls) = Len(StageOrder)

\* C3: a run that reaches execute_query has probed the database exactly twice
\* and the endpoint exactly twice, and the phase-2 checks use the state of the
\* dependency at that moment: a dependency that answered in phase 1 and does
\* not answer in phase 2 ends the run with a failure.
C3_ProbeCounts ==
  ExecuteCalls > 0 => Count("test_connection") = 2 /\ Count("get_probe") = 2

C3_FreshStep ==
  /\ (pc = "probe_db_2" /\ pc' # pc /\ calls[1].ok /\ ~test_connection)
       => (pc' = "returned" /\ ~result'.success)
  /\ (pc = "probe_endpoint_2" /\ pc' # pc /\ calls[2].ok /\ ep_state # "ok")
       => (pc' = "returned" /\ ~result'.success)

C3_FreshPhase2Probes == []C3_ProbeCounts /\ [][C3_FreshStep]_vars

C3_Witness ==
  /\ pc = "returned"
  /\ Succeeded("probe_db_1")
  /\ Failed("probe_db_2")
  /\ ~result.success

\* C4: once the decrypt step has produced the SQL text, every later failure
\* result of the run carries SQL in its third component, not None.
C4_SqlKeptAfterDecrypt ==
  (pc = "returned" /\ Succeeded("decrypt") /\ ~result.success)
    => result.sql # None

\* C5 as stated: after a SQL execution error the sql component holds exactly
\* the batches that were attempted.
C5_SqlIsAttemptedBatches ==
  (pc = "returned" /\ failed_batch > 0)
    => /\ result.sql # None
       /\ split_sql_batches(result.sql) = SubSeq(batches, 1, attempted)

\* C5 as amended: after a SQL execution error the sql component is populated
\* and is the whole repaired script that was passed to execute_query, with
\* every batch of it, attempted or not.
C5_SqlIsWholeScript ==
  (pc = "returned" /\ failed_batch > 0)
    => /\ ~result.success
       /\ result.sql # None
       /\ strip(result.sql) # <<>>
       /\ result.sql = corrected_sql
       /\ split_sql_batches(result.sql) = batches
       /\ attempted <= Len(batches)

C5_Witness ==
  /\ pc = "returned"
  /\ failed_batch = 1
  /\ Len(batches) = 2
  /\ attempted = 1

\* C6: when batch k of n fails, exactly k batches were handed to the
\* database, no later batch is executed and execute_query returns failure.
C6_StopAtFailingBatch ==
  failed_batch > 0
    => /\ attempted = failed_batch
       /\ epc = "done"
       /\ ~exec_result.success

C6_Witness ==
  /\ failed_batch = 2
  /\ Len(batches) = 3
  /\ attempted = 2
  /\ epc = "done"

\* C7: when batch k fails, every batch before it is committed.
C7_EarlierBatchesDurable ==
  failed_batch > 0 => \A j \in 1..(failed_batch - 1) : j \in committed

\* C8: one connection per call, closed on every exit path once opened.
C8_ConnectionReleased ==
  /\ opened <= 1
  /\ (epc = "done" /\ opened > 0) => connection = "closed"

StageRank(p) ==
  CASE p = "idle" -> 0
    [] p = "probe_db_1" -> 1
    [] p = "probe_endpoint_1" -> 2
    [] p = "fetch" -> 3
    [] p = "decrypt" -> 4
    [] p = "normalize" -> 5
    [] p = "repair" -> 6
    [] p = "probe_db_2" -> 7
    [] p = "probe_endpoint_2" -> 8
    [] p = "execute" -> 9
    [] OTHER -> 10

ExecRank(e) ==
  CASE e = "none" -> 0
    [] e = "connect" -> 1
    [] e = "loop" -> 2
    [] e = "final" -> 3
    [] OTHER -> 4

C10_Returns ==
  /\ ~escaped
  /\ pc = "returned" => result.message # "<none>"
  /\ (\E k \in 1..Len(calls) :
        ~calls[k].ok /\ (calls[k].stage # "execute" \/ epc = "done"))
       => pc = "returned" /\ ~result.success
  /\ pc = "execute"
       => \/ epc \in {"none", "connect", "final"}
          \/ epc = "loop" /\ batch_i \in 1..Len(batches)

C10_Forward ==
  (pc \notin {"idle", "returned"} /\ <<runVars, execVars>>' # <<runVars, execVars>>)
    => \/ StageRank(pc') > StageRank(pc)
       \/ pc' = pc /\ ExecRank(epc') > ExecRank(epc)
       \/ pc' = pc /\ epc' = epc /\ batch_i' > batch_i

C10_AlwaysReturns == []C10_Returns /\ [][C10_Forward]_vars

C10_Witness ==
  /\ pc = "returned"
  /\ result.message = "unexpected"
  /\ ~result.success

\* C11: no stage is retried inside one invocation: every stage is entered at
\* most once, a failed call is the last call of the run and the run has
\* returned with it, execute_query is called at most once, and inside it the
\* connection is opened once and no batch is handed to the database twice.
C11_NoRetry ==
  /\ ExecuteCalls <= 1
  /\ \A j, k \in 1..Len(calls) : calls[j].stage = calls[k].stage => j = k
  /\ \A k \in 1..Len(calls) :
       (~calls[k].ok /\ (calls[k].stage # "execute" \/ epc = "done"))
         => (k = Len(calls) /\ pc = "returned" /\ ~result.success)
  /\ opened <= 1
  /\ attempted <= Len(batches)
  /\ attempted < batch_i \/ (attempted = batch_i /\ epc = "done")
       \/ batch_i = 0

C11_Witness ==
  /\ pc = "returned"
  /\ Len(calls) = 3
  /\ Failed("fetch")
  /\ ExecuteCalls = 0

\* C12: a 200 response whose JSON body is a bare object is accepted by the
\* fetch step like a one-element array and handed to the decrypt step.
C12_BareObjectAccepted ==
  (pc = "returned" /\ Performed("fetch")
     /\ result.message = "not_a_list_dict") => Performed("decrypt")

\* C15: on overall success execute_query returns the rows of the last batch
\* that produced a result set if any batch did; otherwise it reports the last
\* non-zero affected-row count among the executed batches; otherwise only the
\* generic message.
RowBatches == {k \in 1..Len(db_events) : db_events[k].outcome = "rows"}
CountBatches ==
  {k \in 1..Len(db_events) :
     db_events[k].outcome = "norows" /\ db_events[k].rowcount > 0}
Last(S) == CHOOSE k \in S : \A j \in S : j <= k

C15_SuccessResult ==
  (epc = "done" /\ exec_result.success)
    => IF RowBatches # {}
       THEN /\ exec_result.message = "results"
            /\ exec_result.results = RowsOf(db_events[Last(RowBatches)].batch)
       ELSE IF CountBatches # {}
       THEN /\ exec_result.message = "rows_affected"
            /\ exec_result.results
                 = RowCountOf(db_events[Last(CountBatches)].rowcount)
       ELSE exec_result.message = "batches_executed"

\* C13: the failure message for a failing batch contains the 1-based index
\* of the batch, the number of batches and the batch text cut to at most its
\* first 200 characters, whichever class the error falls into.
C13_MessageHasBatchDetails ==
  fn = "analyzed"
    => /\ output.batch_num = input.batch_num
       /\ output.total_batches = input.total_batches
       /\ output.excerpt # None
       /\ output.excerpt
            = SubSeq(input.sql_batch, 1, Min(200, Len(input.sql_batch)))

\* C14: an error text with an insufficient-privilege indication (229, 230 or
\* the word permission) is reported as a permission error, whatever else the
\* text contains.
C14_PermissionReported ==
  (fn = "analyzed" /\ input.error_str \cap {"229", "230", "permission"} # {})
    => output.class = "permission"

\* C16: applying fix_trigger_structure to its own result changes nothing.
C16_RepairIdempotent ==
  fn = "repaired_twice" => output[2] = output[1]

\* C17: the batches are the pieces of the text between the lines that are,
\* after trimming, the token GO in any case with an optional semicolon; each
\* piece is trimmed and a piece that is empty then is dropped.  So a text
\* without such a line gives one batch, A / GO / B / GO gives [A, B], and
\* what follows the last separator is a batch of its own.
GoLine(line) ==
  LET t == RemoveSyms(line, WhiteSyms)
  IN [k \in 1..Len(t) |-> Upper(t[k])] \in {<<"GO">>, <<"GO", SEMI>>}

\* the pieces between the separator lines, each a sequence of lines
RECURSIVE Pieces(_, _)
Pieces(ls, piece) ==
  IF ls = <<>> THEN <<piece>>
  ELSE IF GoLine(Head(ls)) THEN <<piece>> \o Pieces(Tail(ls), <<>>)
  ELSE Pieces(Tail(ls), Append(piece, Head(ls)))

RECURSIVE TrimmedPieces(_)
TrimmedPieces(ps) ==
  IF ps = <<>> THEN <<>>
  ELSE LET text == strip(JoinLines(Head(ps)))
       IN (IF text = <<>> THEN <<>> ELSE <<text>>) \o TrimmedPieces(Tail(ps))

BadPadding(bytes) ==
  LET n == Len(bytes)
      p == bytes[n]
  IN \/ p = 0
     \/ p > 16
     \/ \E k \in 1..p : bytes[n + 1 - k] # p

\* the bytes the cipher gives for entry e under the password of the call
DecryptedBlocks(e) ==
  IF input.password = SenderPassword THEN e.padded ELSE input.noise

C18_BadPaddingRejected ==
  fn = "decrypted_envelope"
    => \A k \in 1..Len(input.envelope) :
         (/\ input.envelope[k].padded # <<>>
          /\ BadPadding(DecryptedBlocks(input.envelope[k])))
           => (~output.ok /\ output.text = <<>>)

C18_Witness ==
  /\ fn = "decrypted_envelope"
  /\ input.password = SenderPassword
  /\ Len(input.envelope) = 1
  /\ input.envelope[1].padded = Repeat(97, 14) \o <<3, 2>>
  /\ ~output.ok
  /\ output.error = "Ungueltiges Padding-Format"

\* C19 as stated: for every plaintext and every passphrase, the item made by
\* encrypt_text decrypts under the same passphrase to the plaintext.
C19_RoundTrip ==
  fn = "decrypted" => (output[2].ok /\ output[2].text = input.text)

\* C19 as amended: the same for every plaintext and every passphrase that is
\* not empty; with the empty passphrase encrypt_text makes an item and
\* decrypt_from_n8n_format refuses to decrypt it.
C19_RoundTripNonEmptyPassphrase ==
  fn = "decrypted"
    => IF input.password # ""
       THEN output[2].ok /\ output[2].text = input.text
       ELSE ~output[2].ok /\ output[2].error = "Passwort darf nicht leer sein"

C19_Witness ==
  /\ fn = "decrypted"
  /\ input.password # ""
  /\ Len(input.text) > 0
  /\ Len(Encode(input.text)) % 16 = 0
  /\ Len(output[1].encrypted.blocks) = Len(Encode(input.text)) + 16
  /\ output[2].ok
  /\ output[2].text = input.text

\* C20: an envelope of n well-formed items gives the plaintexts of the items
\* in envelope order without separator; an item gives the same wrapped under
\* json or bare; an empty envelope or an item with an IV that is not 16
\* bytes long makes the whole call fail.
RECURSIVE Plaintexts(_)
Plaintexts(envelope) ==
  IF envelope = <<>> THEN <<>>
  ELSE Head(envelope).plain \o Plaintexts(Tail(envelope))

Unwrapped(item) ==
  IF Has(item, "json") /\ IsDict(item.json) THEN item.json ELSE item

ShortIv(item) ==
  LET d == Unwrapped(item) IN Has(d, "iv") /\ Len(d.iv) # 16

C20_EnvelopeConcatenated ==
  fn = "decrypted_envelope"
    => LET envelope == input.envelope
           n == Len(envelope)
       IN /\ (/\ n >= 1
               /\ input.password = SenderPassword
               /\ \A k \in 1..n : envelope[k].valid)
               => (output.ok /\ output.text = Plaintexts(envelope))
          /\ output = decrypt_from_n8n_format(
                         [k \in 1..n |-> Unwrapped(envelope[k].item)],
                         input.password, input.noise)
          /\ n = 0 => ~output.ok
          /\ (\E k \in 1..n : ShortIv(envelope[k].item)) => ~output.ok

C20_Witness ==
  /\ fn = "decrypted_envelope"
  /\ input.password = SenderPassword
  /\ Len(input.envelope) = 2
  /\ input.envelope[1].plain = <<98, 233>>
  /\ Has(input.envelope[1].item, "json")
  /\ input.envelope[2].plain = <<97>>
  /\ ~Has(input.envelope[2].item, "json")
  /\ output.ok
  /\ output.text = <<98, 233, 97>>

\* the text the missing-END scan starts from: sql_text after the two BEGIN
\* substitutions
BeforeScan(sql_text) ==
  LET c1 == IF ~HasAsBegin(sql_text) THEN Sub1(sql_text, 1) ELSE sql_text
  IN IF ~HasAsBegin(c1) THEN Sub2(c1, 1) ELSE c1

\* how often the keyword stands in the text
CountWord(t, word) ==
  Cardinality({i \in 1..Len(t) :
     Upper(t[i]) = word /\ BoundaryBefore(t, i) /\ BoundaryAfter(t, i)})

\* the line where the trigger block that line i lies in starts: the last
\* CREATE TRIGGER line before i with no GO line in between (0: none)
TriggerStart(ls, i) ==
  LET starts == {s \in 1..(i - 1) :
                   /\ HasCreateTrigger(ls[s])
                   /\ \A k \in (s + 1)..(i - 1) : ~IsGoLine(ls[k])}
  IN IF starts = {} THEN 0 ELSE CHOOSE s \in starts : \A r \in starts : r <= s

\* the GO lines that are reached with more BEGIN than END keywords
OpenAtGo(ls) ==
  {i \in 1..Len(ls) :
     /\ IsGoLine(ls[i])
     /\ TriggerStart(ls, i) # 0
     /\ LET block == JoinLines(SubSeq(ls, TriggerStart(ls, i), i - 1))
        IN CountWord(block, "BEGIN") > CountWord(block, "END")}

\* the nearest line before i that is neither blank nor a GO line
NearestLine(ls, i) ==
  CHOOSE j \in 1..(i - 1) :
    /\ strip(ls[j]) # <<>> /\ ~IsGoLine(ls[j])
    /\ \A k \in (j + 1)..(i - 1) : strip(ls[k]) = <<>> \/ IsGoLine(ls[k])

\* C21: when the scan of a CREATE TRIGGER script reaches a GO line while the
\* trigger has more BEGIN than END keywords, the result has an END line
\* directly after the nearest line before the GO line that is neither blank
\* nor a GO line.
C21_EndInsertedBeforeGo ==
  (fn = "repaired" /\ HasCreateTrigger(input))
    => LET ls == SplitLines(BeforeScan(input))
           out == SplitLines(output[1])
           open == OpenAtGo(ls)
       IN \A i \in open :
            LET j == NearestLine(ls, i)
                k == j + 1 + Cardinality({d \in open : d < i})
            IN /\ k <= Len(out)
               /\ out[k] \in {<<"END">>, <<"END", SEMI>>}

\* AS is followed directly by a statement that starts with SET, DECLARE or IF
BodyAfterAs(t) ==
  {i \in 1..Len(t) :
     /\ Upper(t[i]) = "AS" /\ BoundaryBefore(t, i)
     /\ LET r == SkipWhite(t, i + 1)
        IN r > i + 1 /\ r <= Len(t) /\ Upper(t[r]) \in {"SET", "DECLARE", "IF"}}

\* the words of a text, in order, without the END keywords
Words(t) == RemoveSyms(t, WhiteSyms \cup {SEMI, "END", "end"})

\* the words with BEGIN put in after the word at position i
BeginAfter(ws, i) ==
  SubSeq(ws, 1, i) \o <<"BEGIN">> \o SubSeq(ws, i + 1, Len(ws))

\* C22: a CREATE TRIGGER script whose AS is followed directly by a statement
\* starting with SET, DECLARE or IF gets BEGIN right after AS, and nothing
\* else of the body is lost or added: the words of the result are the words
\* of the input with that BEGIN (END keywords, which the scan for the missing
\* END may add, and layout left aside).
C22_BeginInsertedAfterAs ==
  (fn = "repaired" /\ HasCreateTrigger(input) /\ BodyAfterAs(input) # {})
    => LET i == CHOOSE i \in BodyAfterAs(input) : \A k \in BodyAfterAs(input) : i <= k
           as == Len(Words(SubSeq(input, 1, i)))
       IN /\ HasAsBegin(output[1])
          /\ Words(output[1]) = BeginAfter(Words(input), as)

\* the C0 and C1 control characters other than tab, newline and carriage
\* return, and the zero-width and format characters
ControlChars == {NUL, CSI}
ZeroWidthChars == {ZWSP, WJ, BOM}

\* C23: the result of format_sql_for_execution has no leading byte-order
\* mark, no control character other than tab, newline and carriage return,
\* no zero-width or format character, and no whitespace at either end; every
\* other character of the input is kept, in order.
C23_FormatOutput ==
  fn = "formatted"
    => /\ output = <<>> \/ Head(output) # BOM
       /\ \A k \in 1..Len(output) : output[k] \notin ControlChars \cup ZeroWidthChars
       /\ strip(output) = output
       /\ output = strip(RemoveSyms(input, ControlChars \cup ZeroWidthChars))

\* C24: a text without the words CREATE TRIGGER (in any case), and an empty
\* or whitespace-only text, comes back from fix_trigger_structure as it went
\* in.
C24_UnchangedWithoutTrigger ==
  (fn \in {"repaired", "repaired_twice"}
     /\ (~HasCreateTrigger(input) \/ strip(input) = <<>>))
    => output[1] = input

C24_Witness ==
  /\ fn = "repaired"
  /\ input = ProcedureScript
  /\ output[1] = ProcedureScript

\* C25: every batch that _split_sql_batches returns is non-empty and has no
\* line that is a separator (GO in any case, with an optional semicolon),
\* also when the text has nothing but separator lines and blank lines.
C25_NoSeparatorInBatch ==
  fn = "split_done"
    => \A k \in 1..Len(output) :
         /\ output[k] # <<>>
         /\ LET ls == SplitLines(output[k])
            IN \A n \in 1..Len(ls) : ~GoLine(ls[n])

\* the connection string has a field KEY=...;
HasField(connection_string, key) ==
  \E i \in 1..(Len(connection_string) - 1) :
    /\ connection_string[i] = key /\ connection_string[i + 1] = "="
    /\ (i = 1 \/ connection_string[i - 1] = ";")

\* C26: the connection string has the fields DRIVER, SERVER, UID and PWD,
\* and the field DATABASE exactly when a database name is there.
C26_ConnectionStringFields ==
  fn = "connection_string_built"
    => /\ \A key \in {"DRIVER", "SERVER", "UID", "PWD"} : HasField(output, key)
       /\ HasField(output, "DATABASE")
            <=> Or(input.args.database, input.config.database) # ""

\* the text with every separator line of the splitter written as GO
RECURSIVE PlainGoLines(_)
PlainGoLines(ls) ==
  IF ls = <<>> THEN <<>>
  ELSE <<(IF GoLine(Head(ls)) THEN <<"GO">> ELSE Head(ls))>>
         \o PlainGoLines(Tail(ls))

PlainGo(t) == JoinLines(PlainGoLines(SplitLines(t)))

\* C27: a line at which _split_sql_batches ends a batch also ends the trigger
\* block for the missing-END scan, so the repair does the same to a script
\* whichever way its separator lines are written: repairing the script and
\* then writing its separators as GO gives what repairing the script with
\* the separators written as GO gives.
C27_SameSeparator ==
  fn = "repaired"
    => /\ \A line \in {SplitLines(input)[k] : k \in 1..Len(SplitLines(input))} :
            IsBatchSeparator(line) => IsGoLine(line)
       /\ PlainGo(output[1]) = fix_trigger_structure(PlainGo(input))

\* how many of the lines s+1 .. i-1 contain the keyword
LinesWith(ls, s, i, word) ==
  Cardinality({k \in (s + 1)..(i - 1) : HasWord(ls[k], word)})

\* C28: in the result of one application of fix_trigger_structure, every
\* block from a CREATE TRIGGER line to the next GO line has at most as many
\* body lines with BEGIN as body lines with END.
C28_BalancedAfterRepair ==
  fn = "repaired"
    => LET ls == SplitLines(output[1])
       IN \A i \in 1..Len(ls) :
            (IsGoLine(ls[i]) /\ TriggerStart(ls, i) # 0)
              => LinesWith(ls, TriggerStart(ls, i), i, "BEGIN")
                   <= LinesWith(ls, TriggerStart(ls, i), i, "END")

\* C29: a run returns success only when execute_query was called once in it
\* and returned success; the sql of the result is then not empty, and it is
\* the repaired script, which is what execute_query was given.
C29_SuccessAfterOneExecution ==
  (pc = "returned" /\ result.success)
    => /\ ExecuteCalls = 1
       /\ epc = "done" /\ exec_result.success
       /\ result.sql # None /\ result.sql # <<>>
       /\ result.sql = fix_trigger_structure(formatted_sql)
       /\ batches = split_sql_batches(result.sql)

C29_Witness ==
  /\ pc = "returned"
  /\ result.success
  /\ decrypted_text = TriggerScript
  /\ result.sql = fix_trigger_structure(TriggerScript)
  /\ result.sql # TriggerScript
  /\ ExecuteCalls = 1

\* C30: while the configuration file or the stored password is missing, a
\* run makes no external call at all (no connection attempt, no request to
\* the endpoint, no decryption, no execution) and returns failure with no
\* sql.
C30_NothingWithoutCredentials ==
  ~(has_config /\ has_password)
    => /\ calls = <<>>
       /\ pc \in {"idle", "probe_db_1", "returned"}
       /\ epc = "none" /\ opened = 0 /\ attempted = 0 /\ db_events = <<>>
       /\ decrypted_text = None
       /\ (pc = "returned"
             => result = [success |-> FALSE, message |-> "no_credentials",
                          sql |-> None])

C30_Witness ==
  /\ pc = "returned"
  /\ runs = 1
  /\ has_config /\ ~has_password
  /\ db_up /\ ep_state = "ok"
  /\ result.message = "no_credentials"
  /\ result.sql = None

====
